---- MODULE Spec2Model ----
(***************************************************************************)
(* Model of the ETL pipeline of src/src/Reto_code.py: the __main__ block   *)
(* calls limpiar_datos, normalizar_datos, generar_columnas,                *)
(* calcular_agrupaciones, reordenar_columnas and calcular_crecimientos on  *)
(* one pandas DataFrame.                                                   *)
(*                                                                         *)
(* A DataFrame is [cols |-> sequence of column names, rows |-> sequence of *)
(* records]. DataFrames are objects: heap is the sequence of the objects   *)
(* allocated so far and a reference is an index into it, so that writing   *)
(* a column in place is visible through every reference.                   *)
(*                                                                         *)
(* A cell is a tagged record:                                              *)
(*   [t |-> "nan"]                      NaN / None / NaT                   *)
(*   [t |-> "num", v |-> n]             a number                           *)
(*   [t |-> "str", s |-> <<...>>]       text, as its sequence of words     *)
(*                                      (Importe, Participantes) or of     *)
(*                                      characters (Zona, TipoDivisa, ids) *)
(*   [t |-> "txt", lay |-> .., d, m, y, H, M]  a date text in layout lay   *)
(*   [t |-> "ts", d, m, y, H, M]        a pandas Timestamp                 *)
(*   [t |-> "date", d, m, y]            a datetime.date                    *)
(* Amounts are integers; a quotient is kept exactly as a reduced fraction. *)
(* pandas semantics are those of pandas 2.x, the version family the code's *)
(* explicit observed= arguments are written for.                           *)
(***************************************************************************)
EXTENDS Integers, Sequences, FiniteSets, TLC

VARIABLES
    pc,         \* position of __main__: the stage that returned last
    heap,       \* the DataFrame objects allocated so far
    tabla,      \* __main__'s variable tabla: a reference into heap
    raw,        \* the table as cargar_datos returned it (never changes)
    argRef,     \* the reference the last transformation stage was given
    argBefore,  \* the value of that object when the stage was called
    retRef,     \* the reference the last transformation stage returned
    agrup,      \* what calcular_agrupaciones returned
    crec        \* what calcular_crecimientos returned

vars == <<pc, heap, tabla, raw, argRef, argBefore, retRef, agrup, crec>>

(***************************************************************************)
(* Cells                                                                   *)
(***************************************************************************)
NaN == [t |-> "nan"]

Num(n) == [t |-> "num", v |-> n]

Str(s) == [t |-> "str", s |-> s]

DateText(lay, d, m, y, H, M) ==
    [t |-> "txt", lay |-> lay, d |-> d, m |-> m, y |-> y, H |-> H, M |-> M]

Timestamp(d, m, y, H, M) == [t |-> "ts", d |-> d, m |-> m, y |-> y, H |-> H, M |-> M]

PyDate(d, m, y) == [t |-> "date", d |-> d, m |-> m, y |-> y]

isnull(valor) == valor.t = "nan"

NoTable == [cols |-> <<>>, rows |-> <<>>]

NoResult == [estado |-> "none"]

(***************************************************************************)
(* Sequence helpers                                                        *)
(***************************************************************************)
Range(s) == {s[i] : i \in DOMAIN s}

MapRows(Op(_), rows) == [i \in DOMAIN rows |-> Op(rows[i])]

RECURSIVE SumSeq(_)
SumSeq(s) == IF s = <<>> THEN 0 ELSE Head(s) + SumSeq(Tail(s))

Abs(n) == IF n < 0 THEN -n ELSE n

RECURSIVE GCD(_, _)
GCD(a, b) == IF b = 0 THEN a ELSE GCD(b, a % b)

Inf == [t |-> "inf", sign |-> 1]

NegInf == [t |-> "inf", sign |-> -1]

\* Float division n / d as pandas does it: no exception on a zero divisor
\* (inf, -inf or NaN); otherwise the exact quotient as a reduced fraction
\* with a positive denominator.
truediv(n, d) ==
    IF d = 0
      THEN (IF n > 0 THEN Inf ELSE IF n < 0 THEN NegInf ELSE NaN)
      ELSE LET g == GCD(Abs(n), Abs(d))
               sg == IF d < 0 THEN -1 ELSE 1
           IN  [t |-> "frac", n |-> (sg * n) \div g, d |-> (sg * d) \div g]

(***************************************************************************)
(* limpiar_datos: Importe                                                  *)
(***************************************************************************)
\* str.lower() on the words of the model's vocabulary.
LowerWord(w) ==
    CASE w = "Two" -> "two"
      [] w = "Seven" -> "seven"
      [] w = "Sin" -> "sin"
      [] w = "ABC" -> "abc"
      [] OTHER -> w

lower(s) == [i \in DOMAIN s |-> LowerWord(s[i])]

\* w2n.american_number_system, restricted to the model's vocabulary.
american_number_system ==
    [w \in {"two", "seven", "hundred"} |->
        CASE w = "two" -> 2 [] w = "seven" -> 7 [] OTHER -> 100]

\* str.isdigit() on a one-word sentence, with the integer it denotes.
DigitWords == [w \in {"12", "5", "0"} |-> CASE w = "12" -> 12 [] w = "5" -> 5 [] OTHER -> 0]

\* number_sentence.replace('-', ' ') then split(): a word with a hyphen
\* falls apart, and the sentence is no longer all digits.
HasHyphen(w) == w \in {"-5", "-seven"}

Unhyphen(w) == CASE w = "-5" -> "5" [] w = "-seven" -> "seven" [] OTHER -> w

\* w2n.number_formation
number_formation(numbers) ==
    CASE Len(numbers) = 4 -> numbers[1] * numbers[2] + numbers[3] + numbers[4]
      [] Len(numbers) = 3 -> numbers[1] * numbers[2] + numbers[3]
      [] Len(numbers) = 2 -> IF 100 \in Range(numbers)
                               THEN numbers[1] * numbers[2]
                               ELSE numbers[1] + numbers[2]
      [] OTHER -> numbers[1]

\* w2n.word_to_num on a sentence without thousand/million/billion/point:
\* [ok |-> FALSE] stands for the ValueError.
word_to_num(s) ==
    LET split_words == [i \in DOMAIN s |-> Unhyphen(s[i])]
        clean_numbers == SelectSeq(split_words, LAMBDA w : w \in DOMAIN american_number_system)
    IN  IF Len(s) = 1 /\ ~HasHyphen(s[1]) /\ s[1] \in DOMAIN DigitWords
          THEN [ok |-> TRUE, v |-> DigitWords[s[1]]]
        ELSE IF Len(clean_numbers) = 0
          THEN [ok |-> FALSE, v |-> 0]
        ELSE [ok |-> TRUE,
              v |-> number_formation([i \in DOMAIN clean_numbers |->
                                         american_number_system[clean_numbers[i]]])]

convertir_a_numero(valor) ==
    IF valor.t = "str"
      THEN LET r == word_to_num(lower(valor.s))
           IN  IF r.ok THEN Num(r.v) ELSE valor
      ELSE valor

\* What pd.to_numeric reads in a one-word text.
NumericText ==
    [w \in {"12", "5", "0", "-5", "-3"} |->
        CASE w = "12" -> 12 [] w = "5" -> 5 [] w = "0" -> 0 [] w = "-5" -> -5 [] OTHER -> -3]

\* pd.to_numeric(errors='coerce') on one cell
to_numeric(valor) ==
    CASE valor.t = "num" -> valor
      [] valor.t = "str" -> IF Len(valor.s) = 1 /\ valor.s[1] \in DOMAIN NumericText
                              THEN Num(NumericText[valor.s[1]])
                              ELSE NaN
      [] OTHER -> NaN

\* fillna forgotten: a null stays null.
fillna_olvidado(valor, relleno) == valor

fillna(valor, relleno) == IF isnull(valor) THEN relleno ELSE valor

LimpiarImporte(valor) == fillna(to_numeric(convertir_a_numero(valor)), Num(0))

(***************************************************************************)
(* limpiar_datos: FechaCierre                                              *)
(***************************************************************************)
IsLeap(y) == (y % 4 = 0 /\ y % 100 # 0) \/ y % 400 = 0

DaysIn(m, y) ==
    CASE m = 2 -> IF IsLeap(y) THEN 29 ELSE 28
      [] m \in {4, 6, 9, 11} -> 30
      [] OTHER -> 31

\* Matching one text against '%d/%m/%Y %H:%M'
strptime(valor) ==
    IF /\ valor.lay = "d/m/Y H:M"
       /\ valor.m \in 1..12
       /\ valor.d \in 1..DaysIn(valor.m, valor.y)
       /\ valor.H \in 0..23
       /\ valor.M \in 0..59
      THEN Timestamp(valor.d, valor.m, valor.y, valor.H, valor.M)
      ELSE NaN

\* A to_datetime that turns every object into text before matching it
\* against the format: str(date) is laid out year-month-day.
to_datetime_texto(valor) ==
    CASE valor.t = "txt" -> strptime(valor)
      [] valor.t \in {"ts", "date"} -> strptime(DateText("Y-m-d", valor.d, valor.m, valor.y, 0, 0))
      [] OTHER -> NaN

\* pd.to_datetime(format='%d/%m/%Y %H:%M', errors='coerce') on one cell:
\* a text is matched against the format, a datetime or date object is
\* taken as it is, anything else is NaT.
to_datetime(valor) ==
    CASE valor.t = "txt" -> strptime(valor)
      [] valor.t = "ts" -> valor
      [] valor.t = "date" -> Timestamp(valor.d, valor.m, valor.y, 0, 0)
      [] OTHER -> NaN

\* Series.dt.date
dt_date(valor) == IF valor.t = "ts" THEN PyDate(valor.d, valor.m, valor.y) ELSE NaN

\* Series.dt.normalize()
dt_normalize(valor) ==
    IF valor.t = "ts" THEN Timestamp(valor.d, valor.m, valor.y, 0, 0) ELSE NaN

LimpiarFecha(valor) == dt_date(to_datetime(valor))

(***************************************************************************)
(* limpiar_datos: Zona and Participantes                                   *)
(***************************************************************************)
Zona6 == Str(<<"Z", "o", "n", "a", " ", "6">>)

RECURSIVE lstrip(_)
lstrip(s) == IF s # <<>> /\ s[1] = " " THEN lstrip(Tail(s)) ELSE s

RECURSIVE rstrip(_)
rstrip(s) == IF s # <<>> /\ s[Len(s)] = " " THEN rstrip(SubSeq(s, 1, Len(s) - 1)) ELSE s

\* Series.str.strip() on one cell (NaN for what is not text)
str_strip(valor) == IF valor.t = "str" THEN Str(rstrip(lstrip(valor.s))) ELSE NaN

LimpiarZona(valor) == str_strip(fillna(valor, Zona6))

SinDatos == Str(<<"Sin", "datos">>)

replace(valor, viejo, nuevo) == IF valor = viejo THEN nuevo ELSE valor

LimpiarParticipantes(valor) ==
    fillna(to_numeric(replace(valor, SinDatos, Num(0))), Num(0))

\* Lines 41-54 on one row: the four columns are rewritten, the rest kept.
LimpiarFila(r) ==
    [r EXCEPT !.Importe = LimpiarImporte(@),
              !.FechaCierre = LimpiarFecha(@),
              !.Zona = LimpiarZona(@),
              !.Participantes = LimpiarParticipantes(@)]

\* DataFrame.drop_duplicates(): a row stays when no earlier row equals it.
drop_duplicates(rows) ==
    LET keep == {i \in DOMAIN rows : \A j \in 1..(i - 1) : rows[j] # rows[i]}
        RECURSIVE Pick(_)
        Pick(i) == IF i > Len(rows) THEN <<>>
                   ELSE IF i \in keep THEN <<rows[i]>> \o Pick(i + 1)
                   ELSE Pick(i + 1)
    IN  Pick(1)

\* A limpiar_datos that writes nothing to the object it was handed.
LimpiarEnSitio_sin_escribir(t) == t

\* The object the caller handed to limpiar_datos, after lines 41-54.
LimpiarEnSitio(t) == [cols |-> t.cols, rows |-> MapRows(LimpiarFila, t.rows)]

(***************************************************************************)
(* normalizar_datos                                                        *)
(***************************************************************************)
\* Line 81 on one cell.
ReparseFecha(valor) == dt_normalize(to_datetime(valor))

UpperChar(c) ==
    CASE c = "u" -> "U"
      [] c = "s" -> "S"
      [] c = "d" -> "D"
      [] c = "m" -> "M"
      [] c = "x" -> "X"
      [] c = "n" -> "N"
      [] OTHER -> c

\* Series.str.upper() on one cell (NaN for what is not text)
str_upper(valor) ==
    IF valor.t = "str" THEN Str([i \in DOMAIN valor.s |-> UpperChar(valor.s[i])]) ELSE NaN

MXN == <<"M", "X", "N">>

USD == <<"U", "S", "D">>

EUR == <<"E", "U", "R">>

GBP == <<"G", "B", "P">>

\* The dict of __main__ (lines 313-318)
tasas_cambio == (MXN :> 1) @@ (USD :> 20) @@ (EUR :> 22) @@ (GBP :> 25)

\* tasas_cambio[code] raises KeyError unless code is a key.
EsClave(valor) == valor.t = "str" /\ valor.s \in DOMAIN tasas_cambio

DivisorUSD == 20

DivisorEUR == 22

\* Line 83 left out: the code is looked up as it was typed.
NormalizarFila_sin_upper(r) == [r EXCEPT !.FechaCierre = ReparseFecha(@)]

\* Lines 81 and 83 on one row.
NormalizarFila(r) ==
    [r EXCEPT !.FechaCierre = ReparseFecha(@), !.TipoDivisaAjuste = str_upper(@)]

\* The rate the lambda of line 85 multiplies by.
TasaDe(r) == tasas_cambio[r.TipoDivisaAjuste.s]

\* Lines 85-87 on one row whose code is a key.
ConvertirFila(r) ==
    LET mxn == r.Importe.v * TasaDe(r)
    IN  [c \in DOMAIN r \cup {"Importe_MXN", "Importe_USD", "Importe_EUR"} |->
            CASE c = "Importe_MXN" -> Num(mxn)
              [] c = "Importe_USD" -> truediv(mxn, DivisorUSD)
              [] c = "Importe_EUR" -> truediv(mxn, DivisorEUR)
              [] OTHER -> r[c]]

(***************************************************************************)
(* generar_columnas                                                        *)
(***************************************************************************)
\* Series.unique(): the distinct values in order of first appearance.
unique(s) ==
    LET first == {i \in DOMAIN s : \A j \in 1..(i - 1) : s[j] # s[i]}
        RECURSIVE Pick(_)
        Pick(i) == IF i > Len(s) THEN <<>>
                   ELSE IF i \in first THEN <<s[i]>> \o Pick(i + 1)
                   ELSE Pick(i + 1)
    IN  Pick(1)

Columna(rows, c) == [i \in DOMAIN rows |-> rows[i][c]]

\* Folios numbered with i instead of i + 1.
FolioDict_desde_cero(entidad, ids) ==
    LET u == unique(ids)
    IN  [id \in Range(u) |->
            [entidad |-> entidad, n |-> (CHOOSE i \in DOMAIN u : u[i] = id) - 1]]

\* The dict {id: f"<entidad> {i+1}" for i, id in enumerate(ids.unique())}
FolioDict(entidad, ids) ==
    LET u == unique(ids)
    IN  [id \in Range(u) |-> [entidad |-> entidad, n |-> CHOOSE i \in DOMAIN u : u[i] = id]]

rangos == <<0, 217000, 537000, 34000000>>

etiquetas == <<"Bajo", "Medio", "Alto">>

Cat(c) == [t |-> "cat", c |-> c]

\* bins.searchsorted(x, side='left'): how many edges lie strictly below x.
searchsorted(bins, x) == Cardinality({i \in DOMAIN bins : bins[i] < x})

\* pd.cut with right=False: bins closed on the left, the last one closed on
\* both sides.
cut_izquierda(x, bins, labels) ==
    LET ids == IF x = bins[Len(bins)] THEN Len(bins) - 1
               ELSE Cardinality({i \in DOMAIN bins : bins[i] <= x})
    IN  IF ids = 0 \/ ids = Len(bins) THEN NaN ELSE Cat(labels[ids])

\* pd.cut(x, bins, labels, include_lowest=True) with the default right=True
cut(x, bins, labels) ==
    LET ids == IF x = bins[1] THEN 1 ELSE searchsorted(bins, x)
    IN  IF ids = 0 \/ ids = Len(bins) THEN NaN ELSE Cat(labels[ids])

\* groupby(key)[col].sum(): the total of col over the rows of each key.
TotalDe(rows, key, k, col) ==
    SumSeq([i \in DOMAIN rows |-> IF rows[i][key] = k THEN rows[i][col].v ELSE 0])

\* sort_values with ascending=True
RECURSIVE sort_values_asc(_, _)
sort_values_asc(K, val) ==
    IF K = {} THEN {<<>>}
    ELSE UNION {{<<k>> \o resto : resto \in sort_values_asc(K \ {k}, val)} :
                    k \in {k1 \in K : \A k2 \in K : val[k1] <= val[k2]}}

\* sort_values(ascending=False) with the default kind: every order of the
\* keys by descending value; the order among equal values is not fixed.
RECURSIVE sort_values_desc(_, _)
sort_values_desc(K, val) ==
    IF K = {} THEN {<<>>}
    ELSE UNION {{<<k>> \o resto : resto \in sort_values_desc(K \ {k}, val)} :
                    k \in {k1 \in K : \A k2 \in K : val[k1] >= val[k2]}}

TopN == 3

head(s, n) == SubSeq(s, 1, IF Len(s) < n THEN Len(s) ELSE n)

\* The lists zonas_importantes that lines 117-118 can produce.
ZonasImportantes(rows) ==
    LET zonas == Range(Columna(rows, "Zona"))
        ingresos_por_zona == [z \in zonas |-> TotalDe(rows, "Zona", z, "Importe_MXN")]
    IN  {Range(head(orden, TopN)) : orden \in sort_values_desc(zonas, ingresos_por_zona)}

dt_year(valor) == IF valor.t = "ts" THEN Num(valor.y) ELSE NaN

dt_month(valor) == IF valor.t = "ts" THEN Num(valor.m) ELSE NaN

dt_quarter(valor) == IF valor.t = "ts" THEN Num(((valor.m - 1) \div 3) + 1) ELSE NaN

ColumnasDerivadas ==
    {"FolioOportunidad", "FolioEmpresa", "FolioPropietario", "RangoImporte",
     "ClasificacionZona", "AnoCierre", "MesCierre", "TrimestreCierre"}

\* Lines 107-124 on the rows of the table, for one outcome of the sort.
GenerarFilas(rows, zonas_importantes) ==
    LET fo == FolioDict("Oportunidad", Columna(rows, "IdOportunidad"))
        fe == FolioDict("Empresa", Columna(rows, "IdEmpresa"))
        fp == FolioDict("Propietario", Columna(rows, "IdPropietario"))
    IN  [i \in DOMAIN rows |->
            LET r == rows[i]
            IN  [c \in DOMAIN r \cup ColumnasDerivadas |->
                    CASE c = "FolioOportunidad" -> fo[r.IdOportunidad]
                      [] c = "FolioEmpresa" -> fe[r.IdEmpresa]
                      [] c = "FolioPropietario" -> fp[r.IdPropietario]
                      [] c = "RangoImporte" -> cut(r.Importe_MXN.v, rangos, etiquetas)
                      [] c = "ClasificacionZona" ->
                            IF r.Zona \in zonas_importantes THEN Cat("Importante")
                                                            ELSE Cat("Otras")
                      [] c = "AnoCierre" -> dt_year(to_datetime(r.FechaCierre))
                      [] c = "MesCierre" -> dt_month(to_datetime(r.FechaCierre))
                      [] c = "TrimestreCierre" -> dt_quarter(to_datetime(r.FechaCierre))
                      [] OTHER -> r[c]]]

(***************************************************************************)
(* calcular_agrupaciones                                                   *)
(***************************************************************************)
\* groupby(key).agg(IngresoTotal=sum, Oportunidades=count) and the density
Densidad(rows, key) ==
    [k \in Range(Columna(rows, key)) |->
        LET total == TotalDe(rows, key, k, "Importe_MXN")
            n == Cardinality({i \in DOMAIN rows :
                                rows[i][key] = k /\ ~isnull(rows[i].IdOportunidad)})
        IN  [IngresoTotal |-> total, Oportunidades |-> n,
             DensidadIngreso |-> truediv(total, n)]]

\* The values of a function over a finite set, in ascending order.
RECURSIVE SortAsc(_, _)
SortAsc(K, val) ==
    IF K = {} THEN <<>>
    ELSE LET k == CHOOSE k1 \in K : \A k2 \in K : val[k1] <= val[k2]
         IN  <<val[k]>> \o SortAsc(K \ {k}, val)

Q == 3

\* Q times the j/Q quantile of the ascending values x (linear
\* interpolation between the two nearest ranks), for j = 0..Q.
QuantileTimesQ(x, j) ==
    LET pos == j * (Len(x) - 1)
        lo == (pos \div Q) + 1
        rem == pos % Q
    IN  IF rem = 0 THEN Q * x[lo] ELSE Q * x[lo] + rem * (x[lo + 1] - x[lo])

etiquetas_propietarios == <<"Bajo", "Medio", "Top">>

\* The Q + 1 bin edges of qcut (times Q): the quantiles 0, 1/Q, ..., 1 of
\* the values.
BinsDe(K, val) ==
    LET x == SortAsc(K, val)
    IN  [j \in 1..(Q + 1) |-> QuantileTimesQ(x, j - 1)]

\* pd.qcut(values, q=Q, labels): [ok |-> FALSE] stands for the ValueError
\* "Bin edges must be unique".
qcut(K, val, labels) ==
    LET bins == BinsDe(K, val)
    IN  IF Cardinality(Range(bins)) < Len(bins)
          THEN [ok |-> FALSE, clase |-> [k \in K |-> NaN]]
          ELSE [ok |-> TRUE, clase |-> [k \in K |-> cut(Q * val[k], bins, labels)]]

\* Tertiles taken over the rows of the table instead of the owners' totals.
IngresosPropietarios_por_fila(rows) ==
    LET K == Range(Columna(rows, "FolioPropietario"))
        total == [k \in K |-> TotalDe(rows, "FolioPropietario", k, "Importe_MXN")]
        bins == BinsDe(DOMAIN rows, [i \in DOMAIN rows |-> rows[i].Importe_MXN.v])
    IN  [ok |-> Cardinality(Range(bins)) = Len(bins),
         tabla |-> [k \in K |-> [IngresoTotal |-> total[k],
                                 Clasificacion |-> cut(Q * total[k], bins,
                                                       <<"Bajo", "Medio", "Top">>)]]]

\* Lines 160-167
IngresosPropietarios(rows) ==
    LET K == Range(Columna(rows, "FolioPropietario"))
        total == [k \in K |-> TotalDe(rows, "FolioPropietario", k, "Importe_MXN")]
        c == qcut(K, total, etiquetas_propietarios)
    IN  [ok |-> c.ok,
         tabla |-> [k \in K |-> [IngresoTotal |-> total[k], Clasificacion |-> c.clase[k]]]]

calcular_agrupaciones(rows) ==
    LET p == IngresosPropietarios(rows)
    IN  IF p.ok
          THEN [estado |-> "ok",
                densidad_ingresos_zona |-> Densidad(rows, "Zona"),
                densidad_ingresos_empresa |-> Densidad(rows, "FolioEmpresa"),
                ingresos_propietarios |-> p.tabla]
          ELSE [estado |-> "ValueError"]

(***************************************************************************)
(* reordenar_columnas                                                      *)
(***************************************************************************)
columnas_ordenadas ==
    <<"IdOportunidad", "FolioOportunidad", "IdEmpresa", "FolioEmpresa",
      "IdPropietario", "FolioPropietario", "Zona", "ClasificacionZona",
      "TipoDivisaAjuste", "Importe", "Importe_MXN", "Importe_USD", "Importe_EUR",
      "RangoImporte", "FechaCierre", "AnoCierre", "MesCierre", "TrimestreCierre",
      "Participantes">>

\* tabla[columnas_ordenadas]: a new DataFrame with those columns
reordenar_columnas(t) ==
    [cols |-> columnas_ordenadas,
     rows |-> [i \in DOMAIN t.rows |-> [c \in Range(columnas_ordenadas) |-> t.rows[i][c]]]]

(***************************************************************************)
(* calcular_crecimientos                                                   *)
(***************************************************************************)
Ano2023 == 2023

Ano2024 == 2024

\* groupby drops the rows whose key is NaN (a null AnoCierre).
ConAno(rows) == {i \in DOMAIN rows : ~isnull(rows[i].AnoCierre)}

\* The columns of the unstacked table: the years that occur.
AnosDe(rows) == {rows[i].AnoCierre.v : i \in ConAno(rows)}

\* groupby(keys + [AnoCierre])[Importe_MXN].sum().unstack(fill_value=0)
Pivote(rows, keys, entidades) ==
    [e \in entidades |->
        [a \in AnosDe(rows) |->
            SumSeq([i \in DOMAIN rows |->
                      IF i \in ConAno(rows) /\ rows[i].AnoCierre.v = a
                         /\ [c \in keys |-> rows[i][c]] = e
                        THEN rows[i].Importe_MXN.v ELSE 0])]]

\* x * 100 for the result x of a float division: inf and NaN stay, and a
\* fraction n/d is kept as [t |-> "pct", n, d], the value 100 * n / d.
Por100(x) == IF x.t = "frac" THEN [t |-> "pct", n |-> x.n, d |-> x.d] ELSE x

\* The growth divided by the later year's total.
CrecimientoPct_sobre_2024(t) == Por100(truediv(t[Ano2024] - t[Ano2023], t[Ano2024]))

\* ((t[2024] - t[2023]) / t[2023]) * 100
CrecimientoPct(t) == Por100(truediv(t[Ano2024] - t[Ano2023], t[Ano2023]))

ConCrecimiento(p) == [e \in DOMAIN p |-> [totales |-> p[e], Crecimiento |-> CrecimientoPct(p[e])]]

\* Keys seen with a year (observed groups) and all keys (observed=False on
\* the categorical Zona).
EntidadesObservadas(rows, keys) == {[c \in keys |-> rows[i][c]] : i \in ConAno(rows)}

EntidadesTodas(rows, keys) == {[c \in keys |-> rows[i][c]] : i \in DOMAIN rows}

calcular_crecimientos(rows) ==
    LET ke == {"IdEmpresa", "FolioEmpresa"}
        kp == {"IdPropietario", "FolioPropietario"}
        kz == {"Zona"}
    IN  IF {Ano2023, Ano2024} \subseteq AnosDe(rows)
          THEN [estado |-> "ok",
                crecimiento_empresas |->
                    ConCrecimiento(Pivote(rows, ke, EntidadesObservadas(rows, ke))),
                crecimiento_propietarios |->
                    ConCrecimiento(Pivote(rows, kp, EntidadesObservadas(rows, kp))),
                crecimiento_zonas |->
                    ConCrecimiento(Pivote(rows, kz, EntidadesTodas(rows, kz)))]
          ELSE [estado |-> "KeyError"]

(***************************************************************************)
(* __main__: one action per stage                                          *)
(***************************************************************************)
\* tabla = limpiar_datos(tabla): lines 41-54 write the caller's object, line
\* 59 allocates the table that is returned.
Limpiar ==
    /\ pc = "loaded"
    /\ LET enSitio == LimpiarEnSitio(heap[tabla])
           nuevo == [cols |-> enSitio.cols, rows |-> drop_duplicates(enSitio.rows)]
       IN  /\ heap' = Append([heap EXCEPT ![tabla] = enSitio], nuevo)
           /\ tabla' = Len(heap) + 1
           /\ retRef' = Len(heap) + 1
    /\ argRef' = tabla
    /\ argBefore' = heap[tabla]
    /\ pc' = "cleaned"
    /\ UNCHANGED <<raw, agrup, crec>>

\* tabla = normalizar_datos(tabla, tasas_cambio): lines 81 and 83 write the
\* object, then line 85 raises KeyError on the first code that is no key,
\* which nothing catches.
Normalizar ==
    /\ pc = "cleaned"
    /\ LET t == heap[tabla]
           filas == MapRows(NormalizarFila, t.rows)
       IN  IF \A i \in DOMAIN filas : EsClave(filas[i].TipoDivisaAjuste)
             THEN /\ heap' = [heap EXCEPT ![tabla] =
                                [cols |-> t.cols \o <<"Importe_MXN", "Importe_USD", "Importe_EUR">>,
                                 rows |-> MapRows(ConvertirFila, filas)]]
                  /\ retRef' = tabla
                  /\ pc' = "normalized"
             ELSE /\ heap' = [heap EXCEPT ![tabla] = [cols |-> t.cols, rows |-> filas]]
                  /\ retRef' = 0
                  /\ pc' = "abort_normalizar"
    /\ argRef' = tabla
    /\ argBefore' = heap[tabla]
    /\ UNCHANGED <<tabla, raw, agrup, crec>>

\* tabla = generar_columnas(tabla): the columns are added to the object.
Generar ==
    /\ pc = "normalized"
    /\ LET t == heap[tabla]
       IN  \E zonas_importantes \in ZonasImportantes(t.rows) :
              heap' = [heap EXCEPT ![tabla] =
                         [cols |-> t.cols \o <<"FolioOportunidad", "FolioEmpresa",
                                               "FolioPropietario", "RangoImporte",
                                               "ClasificacionZona", "AnoCierre",
                                               "MesCierre", "TrimestreCierre">>,
                          rows |-> GenerarFilas(t.rows, zonas_importantes)]]
    /\ argRef' = tabla
    /\ argBefore' = heap[tabla]
    /\ retRef' = tabla
    /\ pc' = "enriched"
    /\ UNCHANGED <<tabla, raw, agrup, crec>>

\* calcular_agrupaciones(tabla); the sorts of lines 343-345 only reorder
\* the three results, which are kept here as mappings.
Agrupaciones ==
    /\ pc = "enriched"
    /\ agrup' = calcular_agrupaciones(heap[tabla].rows)
    /\ pc' = IF agrup'.estado = "ok" THEN "aggregated" ELSE "abort_agrupaciones"
    /\ UNCHANGED <<heap, tabla, raw, argRef, argBefore, retRef, crec>>

\* tabla = reordenar_columnas(tabla): KeyError when a column is missing.
Reordenar ==
    /\ pc = "aggregated"
    /\ IF Range(columnas_ordenadas) \subseteq Range(heap[tabla].cols)
         THEN /\ heap' = Append(heap, reordenar_columnas(heap[tabla]))
              /\ tabla' = Len(heap) + 1
              /\ pc' = "reordered"
         ELSE /\ pc' = "abort_reordenar"
              /\ UNCHANGED <<heap, tabla>>
    /\ UNCHANGED <<raw, argRef, argBefore, retRef, agrup, crec>>

\* calcular_crecimientos(tabla)
Crecimientos ==
    /\ pc = "reordered"
    /\ crec' = calcular_crecimientos(heap[tabla].rows)
    /\ pc' = IF crec'.estado = "ok" THEN "done" ELSE "abort_crecimientos"
    /\ UNCHANGED <<heap, tabla, raw, argRef, argBefore, retRef, agrup>>

Next == Limpiar \/ Normalizar \/ Generar \/ Agrupaciones \/ Reordenar \/ Crecimientos

(***************************************************************************)
(* Inputs                                                                  *)
(***************************************************************************)
columnas_crudas ==
    <<"IdOportunidad", "IdEmpresa", "IdPropietario", "Importe", "FechaCierre",
      "Zona", "Participantes", "TipoDivisaAjuste">>

Fila(ido, ide, idp, importe, fecha, zona, participantes, divisa) ==
    [IdOportunidad |-> ido, IdEmpresa |-> ide, IdPropietario |-> idp,
     Importe |-> importe, FechaCierre |-> fecha, Zona |-> zona,
     Participantes |-> participantes, TipoDivisaAjuste |-> divisa]

\* A table as cargar_datos returns it, with the given rows.
Tabla(rows) == [cols |-> columnas_crudas, rows |-> rows]

\* The state after tabla = cargar_datos(ruta_archivo) for one such table.
Cargada(t) ==
    /\ pc = "loaded"
    /\ heap = <<t>>
    /\ tabla = 1
    /\ raw = t
    /\ argRef = 0
    /\ argBefore = NoTable
    /\ retRef = 0
    /\ agrup = NoResult
    /\ crec = NoResult

Fecha(d, m, y, H, M) == DateText("d/m/Y H:M", d, m, y, H, M)

IdA == Str(<<"A">>)

IdB == Str(<<"B">>)

IdC == Str(<<"C">>)

ZonaN == Str(<<"N">>)

\* Messy cells, one class of the cleaner's cases each.
ImportesCrudos ==
    {Num(7), Num(-5), Num(0), Str(<<"Two", "hundred">>), Str(<<"Seven">>),
     Str(<<"12">>), Str(<<"-5">>), Str(<<"-seven">>), Str(<<"ABC">>),
     Str(<<"Sin", "datos">>), NaN}

FechasCrudas ==
    {Fecha(15, 3, 2023, 10, 30), Fecha(29, 2, 2024, 23, 59), Fecha(31, 2, 2023, 0, 0),
     Fecha(1, 13, 2024, 9, 0), Fecha(15, 3, 2023, 24, 0),
     DateText("Y-m-d", 15, 3, 2023, 0, 0), NaN}

ZonasCrudas == {ZonaN, Str(<<" ", "N", " ">>), Str(<<"S", " ">>), Str(<<" ">>), NaN}

ParticipantesCrudos ==
    {Num(3), Num(-3), Str(<<"Sin", "datos">>), Str(<<"5">>), Str(<<"-3">>),
     Str(<<"ABC">>), NaN}

DivisasCrudas == {Str(MXN), Str(<<"u", "s", "d">>), Str(USD), Str(<<"X", "X", "X">>), NaN}

FilasClean ==
    {Fila(IdA, IdA, IdB, i, Fecha(15, 3, 2023, 10, 30), ZonaN, Num(3), Str(MXN)) :
        i \in ImportesCrudos}
    \cup {Fila(IdA, IdA, IdA, Num(7), f, ZonaN, Num(3), Str(MXN)) : f \in FechasCrudas}
    \cup {Fila(IdA, IdA, IdA, Num(7), Fecha(15, 3, 2023, 10, 30), z, Num(3), Str(MXN)) :
            z \in ZonasCrudas}
    \cup {Fila(IdA, IdA, IdA, Num(7), Fecha(15, 3, 2023, 10, 30), ZonaN, p, Str(MXN)) :
            p \in ParticipantesCrudos}
    \cup {Fila(IdA, IdA, IdA, Num(7), Fecha(15, 3, 2023, 10, 30), ZonaN, Num(3), d) :
            d \in DivisasCrudas}

MaxRowsClean == 2

InitClean == \E k \in 1..MaxRowsClean : \E rows \in [1..k -> FilasClean] : Cargada(Tabla(rows))

SpecClean == InitClean /\ [][Next]_vars

(***************************************************************************)
(* Claims about limpiar_datos and normalizar_datos (SpecClean)             *)
(***************************************************************************)
Salida == heap[tabla].rows

Recortada(z) ==
    /\ z.t = "str"
    /\ z.s # <<>> => (z.s[1] # " " /\ z.s[Len(z.s)] # " ")

\* A raw cell that holds a negative number, as a number or as digit text.
NegativoCrudo(c) ==
    \/ c.t = "num" /\ c.v < 0
    \/ c.t = "str" /\ c.s \in {<<"-5">>, <<"-3">>}

\* C1 as stated: every row the Cleaner returns has Importe and Participantes
\* non-null numeric and >= 0 and Zona non-null and trimmed, whatever the raw
\* cells were.
C1_LimpioNoNegativo ==
    pc = "cleaned" =>
        \A i \in DOMAIN Salida :
            /\ Salida[i].Importe.t = "num" /\ Salida[i].Importe.v >= 0
            /\ Salida[i].Participantes.t = "num" /\ Salida[i].Participantes.v >= 0
            /\ Recortada(Salida[i].Zona)

\* C1 amended: every row the Cleaner returns has Importe and Participantes
\* non-null numeric and Zona non-null and trimmed; Importe (Participantes) is
\* negative exactly in the rows whose raw cell was a negative number or
\* negative digit text, which the Cleaner keeps as it is.
C1_LimpioNumerico ==
    pc = "cleaned" =>
        /\ \A i \in DOMAIN Salida :
              /\ Salida[i].Importe.t = "num"
              /\ Salida[i].Participantes.t = "num"
              /\ Recortada(Salida[i].Zona)
        /\ Range(Salida) = Range(heap[argRef].rows)
        /\ \A i \in DOMAIN raw.rows :
              /\ heap[argRef].rows[i].Importe.t = "num"
              /\ heap[argRef].rows[i].Participantes.t = "num"
              /\ heap[argRef].rows[i].Importe.v < 0 <=> NegativoCrudo(raw.rows[i].Importe)
              /\ heap[argRef].rows[i].Participantes.v < 0
                    <=> NegativoCrudo(raw.rows[i].Participantes)

C1_Witness ==
    /\ pc = "cleaned"
    /\ \E i, j \in DOMAIN raw.rows :
          /\ raw.rows[i].Importe = Str(<<"-5">>)
          /\ heap[argRef].rows[i].Importe = Num(-5)
          /\ raw.rows[j].Participantes = SinDatos
          /\ heap[argRef].rows[j].Participantes = Num(0)
          /\ heap[argRef].rows[j] \in Range(Salida)

Devuelta == pc \in {"cleaned", "normalized", "enriched", "aggregated", "reordered", "done"}

\* C2: in the table the Cleaner returns and in the table every later stage
\* returns, no two rows are identical across all columns.
C2_SinDuplicados ==
    Devuelta => \A i, j \in DOMAIN Salida : i # j => Salida[i] # Salida[j]

\* C3: the Normalizer's re-parse of a FechaCierre the Cleaner produced (a
\* calendar date or null) yields that calendar date at midnight, and null
\* only when the Cleaner's value was null.
C3_FechaIdempotente ==
    pc \in {"normalized", "abort_normalizar"} =>
        \A i \in DOMAIN argBefore.rows :
            LET antes == argBefore.rows[i].FechaCierre
                despues == heap[argRef].rows[i].FechaCierre
            IN  /\ antes.t \in {"date", "nan"}
                /\ antes.t = "date" =>
                      /\ despues.t = "ts"
                      /\ <<despues.d, despues.m, despues.y>> = <<antes.d, antes.m, antes.y>>
                      /\ <<despues.H, despues.M>> = <<0, 0>>
                /\ despues.t = "nan" <=> antes.t = "nan"

C3_Witness ==
    /\ pc = "normalized"
    /\ \E i, j \in DOMAIN argBefore.rows :
          /\ raw.rows[i].FechaCierre = Fecha(29, 2, 2024, 23, 59)
          /\ argBefore.rows[i].FechaCierre = PyDate(29, 2, 2024)
          /\ heap[argRef].rows[i].FechaCierre = Timestamp(29, 2, 2024, 0, 0)
          /\ argBefore.rows[j].FechaCierre = NaN
          /\ heap[argRef].rows[j].FechaCierre = NaN

\* The uppercased code of a raw cell is no key of the rate table.
CodigoSinTasa(c) == c.t # "str" \/ str_upper(c).s \notin {MXN, USD, EUR, GBP}

TasaEsperada(c) ==
    LET u == str_upper(c).s
    IN  CASE u = MXN -> 1 [] u = USD -> 20 [] u = EUR -> 22 [] OTHER -> 25

\* C8: when some row's uppercased TipoDivisaAjuste (a null code included) is
\* no key of the rate table the run stops at the Normalizer, with no
\* converted column and no later output; when every code is a key the
\* Normalizer does not stop the run and Importe_MXN = Importe * rate[code].
C8_DivisaDesconocidaAborta ==
    IF \E i \in DOMAIN raw.rows : CodigoSinTasa(raw.rows[i].TipoDivisaAjuste)
      THEN /\ pc \in {"loaded", "cleaned", "abort_normalizar"}
           /\ agrup.estado = "none" /\ crec.estado = "none"
           /\ \A o \in DOMAIN heap : "Importe_MXN" \notin Range(heap[o].cols)
           /\ pc = "abort_normalizar" => retRef = 0
      ELSE /\ pc # "abort_normalizar"
           /\ pc = "normalized" =>
                 \A i \in DOMAIN Salida :
                    /\ Salida[i].Importe_MXN.t = "num"
                    /\ Salida[i].Importe_MXN.v =
                          argBefore.rows[i].Importe.v
                             * TasaEsperada(argBefore.rows[i].TipoDivisaAjuste)

C8_Witness ==
    /\ pc = "abort_normalizar"
    /\ \E i, j \in DOMAIN raw.rows :
          /\ raw.rows[i].TipoDivisaAjuste = NaN
          /\ raw.rows[j].TipoDivisaAjuste = Str(<<"u", "s", "d">>)
          /\ \E k \in DOMAIN Salida : Salida[k].TipoDivisaAjuste = Str(USD)

Transformada == pc \in {"cleaned", "normalized", "enriched"}

\* C10 as stated: after limpiar_datos, normalizar_datos or generar_columnas
\* returns, the table the caller handed in has the columns and cells it had
\* before the call, and the result is another table.
C10_EntradaIntacta ==
    Transformada => heap[argRef] = argBefore /\ retRef # argRef

ColumnasLimpiadas == {"Importe", "FechaCierre", "Zona", "Participantes"}

\* C10 amended: limpiar_datos rewrites Importe, FechaCierre, Zona and
\* Participantes of the caller's table in place (same columns, same number
\* of rows, every other cell unchanged) and returns a new table, the
\* deduplicated rows; normalizar_datos and generar_columnas return the very
\* object they were given, with columns appended and, besides the
\* Normalizer's FechaCierre and TipoDivisaAjuste, the earlier cells unchanged.
C10_EntradaEscrita ==
    /\ pc = "cleaned" =>
          /\ retRef # argRef
          /\ heap[argRef].cols = argBefore.cols
          /\ Len(heap[argRef].rows) = Len(argBefore.rows)
          /\ \A i \in DOMAIN argBefore.rows :
                /\ \A c \in Range(argBefore.cols) \ ColumnasLimpiadas :
                      heap[argRef].rows[i][c] = argBefore.rows[i][c]
                /\ heap[argRef].rows[i].Importe.t = "num"
                /\ heap[argRef].rows[i].Participantes.t = "num"
                /\ heap[argRef].rows[i].FechaCierre.t \in {"date", "nan"}
                /\ Recortada(heap[argRef].rows[i].Zona)
          /\ Range(heap[retRef].rows) = Range(heap[argRef].rows)
    /\ pc \in {"normalized", "enriched"} =>
          /\ retRef = argRef
          /\ Len(heap[argRef].cols) > Len(argBefore.cols)
          /\ SubSeq(heap[argRef].cols, 1, Len(argBefore.cols)) = argBefore.cols
          /\ Len(heap[argRef].rows) = Len(argBefore.rows)
          /\ \A i \in DOMAIN argBefore.rows :
                \A c \in Range(argBefore.cols) \
                        (IF pc = "normalized" THEN {"FechaCierre", "TipoDivisaAjuste"} ELSE {}) :
                    heap[argRef].rows[i][c] = argBefore.rows[i][c]

C10_Witness ==
    /\ pc = "cleaned"
    /\ \E i \in DOMAIN argBefore.rows :
          /\ argBefore.rows[i].Importe = Str(<<"Two", "hundred">>)
          /\ heap[argRef].rows[i].Importe = Num(200)
    /\ Len(heap[retRef].rows) < Len(heap[argRef].rows)

(***************************************************************************)
(* Inputs whose rows are numbered                                          *)
(***************************************************************************)
\* The table whose i-th row is F(i, ch[i]).
TablaPorFila(F(_, _), ch) == Tabla([i \in DOMAIN ch |-> F(i, ch[i])])

\* Odd rows close in 2023, even rows in 2024.
FechaDeFila(i) == Fecha(15, 3, IF i % 2 = 1 THEN Ano2023 ELSE Ano2024, 10, 30)

Enriquecida == pc = "enriched"

(***************************************************************************)
(* Claim about RangoImporte (SpecRango)                                    *)
(***************************************************************************)
ImportesRango ==
    {-1, 0, 1, 216999, 217000, 217001, 536999, 537000, 537001,
     33999999, 34000000, 34000001}

OpcionesRango ==
    [importe : ImportesRango, divisa : {MXN}]
    \cup [importe : {10850, 26850, 1700000}, divisa : {USD}]

FilaRango(i, o) ==
    Fila(Num(i), IdA, Num(i), Num(o.importe), FechaDeFila(i), ZonaN, Num(1), Str(o.divisa))

MaxRowsRango == 2

InitRango ==
    \E k \in 1..MaxRowsRango : \E ch \in [1..k -> OpcionesRango] :
        Cargada(TablaPorFila(FilaRango, ch))

SpecRango == InitRango /\ [][Next]_vars

\* C4 as stated: RangoImporte by half-open bins over Importe_MXN: Bajo on
\* [0, 217000), Medio on [217000, 537000), Alto on [537000, 34000000], null
\* outside [0, 34000000].
C4_BinsSemiabiertos ==
    Enriquecida =>
        \A i \in DOMAIN Salida :
            LET v == Salida[i].Importe_MXN.v
                r == Salida[i].RangoImporte
            IN  /\ (0 <= v /\ v < 217000) => r = Cat("Bajo")
                /\ (217000 <= v /\ v < 537000) => r = Cat("Medio")
                /\ (537000 <= v /\ v <= 34000000) => r = Cat("Alto")
                /\ (v < 0 \/ v > 34000000) => r = NaN

\* C4 amended: the bins are closed on the right: Bajo on [0, 217000], Medio
\* on (217000, 537000], Alto on (537000, 34000000], null outside
\* [0, 34000000]; so exactly 217000 is Bajo and exactly 537000 is Medio.
C4_BinsCerradosDerecha ==
    Enriquecida =>
        \A i \in DOMAIN Salida :
            LET v == Salida[i].Importe_MXN.v
                r == Salida[i].RangoImporte
            IN  /\ (0 <= v /\ v <= 217000) => r = Cat("Bajo")
                /\ (217000 < v /\ v <= 537000) => r = Cat("Medio")
                /\ (537000 < v /\ v <= 34000000) => r = Cat("Alto")
                /\ (v < 0 \/ v > 34000000) => r = NaN

C4_Witness ==
    /\ Enriquecida
    /\ \E i, j \in DOMAIN Salida :
          /\ Salida[i].Importe_MXN = Num(217000) /\ Salida[i].RangoImporte = Cat("Bajo")
          /\ Salida[j].Importe_MXN = Num(34000001) /\ Salida[j].RangoImporte = NaN

(***************************************************************************)
(* Claim about the folios (SpecFolio)                                      *)
(***************************************************************************)
OpcionesFolio ==
    [o : {IdA, IdB, IdC}, ep : {<<IdA, IdB>>, <<IdB, IdA>>}]

FilaFolio(i, o) ==
    Fila(o.o, o.ep[1], o.ep[2], Num(i * 100), FechaDeFila(i), ZonaN, Num(1), Str(MXN))

MaxRowsFolio == 4

InitFolio ==
    \E k \in 1..MaxRowsFolio : \E ch \in [1..k -> OpcionesFolio] :
        Cargada(TablaPorFila(FilaFolio, ch))

SpecFolio == InitFolio /\ [][Next]_vars

\* The rank of row i's id among the distinct ids in order of first
\* appearance: how many distinct ids occur up to its first occurrence.
RangoDeAparicion(rows, col, i) ==
    LET primera == CHOOSE j \in DOMAIN rows :
                      /\ rows[j][col] = rows[i][col]
                      /\ \A k \in 1..(j - 1) : rows[k][col] # rows[i][col]
    IN  Cardinality({rows[k][col] : k \in 1..primera})

FolioBien(rows, col, folio, entidad) ==
    /\ \A i \in DOMAIN rows :
          /\ rows[i][folio].entidad = entidad
          /\ rows[i][folio].n = RangoDeAparicion(rows, col, i)
    /\ \A i, j \in DOMAIN rows : rows[i][col] = rows[j][col] <=> rows[i][folio] = rows[j][folio]
    /\ {rows[i][folio].n : i \in DOMAIN rows} = 1..Cardinality({rows[i][col] : i \in DOMAIN rows})

\* C5: for IdOportunidad, IdEmpresa and IdPropietario the k-th distinct id in
\* order of first appearance gets '<Entity> k': equal ids get equal folios,
\* different ids different folios, and the numbers used are exactly 1..n.
C5_FoliosBiyectivos ==
    Enriquecida =>
        /\ FolioBien(Salida, "IdOportunidad", "FolioOportunidad", "Oportunidad")
        /\ FolioBien(Salida, "IdEmpresa", "FolioEmpresa", "Empresa")
        /\ FolioBien(Salida, "IdPropietario", "FolioPropietario", "Propietario")

C5_Witness ==
    /\ Enriquecida
    /\ Columna(Salida, "IdOportunidad") = <<IdA, IdB, IdA, IdC>>
    /\ [i \in DOMAIN Salida |-> Salida[i].FolioOportunidad.n] = <<1, 2, 1, 3>>
    /\ Columna(Salida, "IdEmpresa") = <<IdB, IdA, IdA, IdB>>
    /\ [i \in DOMAIN Salida |-> Salida[i].FolioEmpresa.n] = <<1, 2, 2, 1>>

(***************************************************************************)
(* Claim about ClasificacionZona (SpecZona)                                *)
(***************************************************************************)
ZonasNombres == <<"N", "S", "E", "W">>

OpcionesZona == [z : DOMAIN ZonasNombres, importe : {1, 2}]

FilaZona(i, o) ==
    Fila(Num(i), IdA, Num(i), Num(o.importe), FechaDeFila(i),
         Str(<<ZonasNombres[o.z]>>), Num(1), Str(MXN))

MaxRowsZona == 5

\* Zone names are interchangeable: row i takes one of the first i names.
InitZona ==
    \E k \in 1..MaxRowsZona : \E ch \in [1..k -> OpcionesZona] :
        /\ \A i \in 1..k : ch[i].z <= i
        /\ Cargada(TablaPorFila(FilaZona, ch))

SpecZona == InitZona /\ [][Next]_vars

ZonasDe(rows) == {rows[i].Zona : i \in DOMAIN rows}

IngresoZona(rows, z) ==
    SumSeq([i \in DOMAIN rows |-> IF rows[i].Zona = z THEN rows[i].Importe_MXN.v ELSE 0])

Importantes(rows) ==
    {rows[i].Zona : i \in {k \in DOMAIN rows : rows[k].ClasificacionZona = Cat("Importante")}}

\* Row of the first appearance of zone z.
PrimeraFila(rows, z) ==
    CHOOSE i \in DOMAIN rows : rows[i].Zona = z /\ \A k \in 1..(i - 1) : rows[k].Zona # z

\* z comes before w when the zones are ranked by descending total and, at
\* equal totals, by their order in the table.
AntesEstable(rows, z, w) ==
    \/ IngresoZona(rows, z) > IngresoZona(rows, w)
    \/ /\ IngresoZona(rows, z) = IngresoZona(rows, w)
       /\ PrimeraFila(rows, z) < PrimeraFila(rows, w)

\* C6 as stated: a row is Importante exactly when its zone is one of the 3
\* zones with the largest total Importe_MXN, ties at the 3rd place broken by
\* the stable order of the zones.
C6_Top3Estable ==
    Enriquecida =>
        \A i \in DOMAIN Salida :
            Salida[i].ClasificacionZona = Cat("Importante")
               <=> Cardinality({w \in ZonasDe(Salida) :
                                  AntesEstable(Salida, w, Salida[i].Zona)}) < 3

Min(a, b) == IF a < b THEN a ELSE b

\* C6 amended: every row is Importante or Otras and the rows of one zone
\* carry the same label; the Importante zones are min(3, number of zones)
\* zones, none of them with a smaller total than a zone labelled Otras
\* (which of the zones tied at the 3rd place are taken is left to the
\* sort, which is not stable); with 3 or fewer zones every row is
\* Importante.
C6_Top3PorIngreso ==
    Enriquecida =>
        /\ \A i \in DOMAIN Salida :
              Salida[i].ClasificacionZona \in {Cat("Importante"), Cat("Otras")}
        /\ \A i, j \in DOMAIN Salida :
              Salida[i].Zona = Salida[j].Zona
                 => Salida[i].ClasificacionZona = Salida[j].ClasificacionZona
        /\ Cardinality(Importantes(Salida)) = Min(3, Cardinality(ZonasDe(Salida)))
        /\ \A z \in Importantes(Salida) : \A w \in ZonasDe(Salida) \ Importantes(Salida) :
              IngresoZona(Salida, z) >= IngresoZona(Salida, w)
        /\ Cardinality(ZonasDe(Salida)) <= 3 =>
              \A i \in DOMAIN Salida : Salida[i].ClasificacionZona = Cat("Importante")

C6_Witness ==
    /\ Enriquecida
    /\ Cardinality(ZonasDe(Salida)) = 4
    /\ Len(Salida) = 5
    /\ \E z \in Importantes(Salida) : \E w \in ZonasDe(Salida) \ Importantes(Salida) :
          /\ IngresoZona(Salida, z) = IngresoZona(Salida, w)
          /\ PrimeraFila(Salida, w) < PrimeraFila(Salida, z)

(***************************************************************************)
(* Claim about the owners' tertiles (SpecOwners)                           *)
(***************************************************************************)
\* Row i belongs to an owner of its own or to the first row's owner, and
\* its amount is i hundreds or one hundred.
OpcionesOwners == [propio : BOOLEAN, escalon : BOOLEAN]

FilaOwners(i, o) ==
    Fila(Num(i), IdA, IF o.propio THEN Num(i) ELSE Num(1),
         Num(IF o.escalon THEN i * 100 ELSE 100), FechaDeFila(i), ZonaN, Num(1), Str(MXN))

MaxRowsOwners == 6

InitOwners ==
    \E k \in 1..MaxRowsOwners : \E ch \in [1..k -> OpcionesOwners] :
        Cargada(TablaPorFila(FilaOwners, ch))

SpecOwners == InitOwners /\ [][Next]_vars

Propietarios(rows) == {rows[i].FolioPropietario : i \in DOMAIN rows}

IngresoPropietario(rows, k) ==
    SumSeq([i \in DOMAIN rows |->
              IF rows[i].FolioPropietario = k THEN rows[i].Importe_MXN.v ELSE 0])

Nivel(c) == CASE c = Cat("Bajo") -> 1 [] c = Cat("Medio") -> 2 [] c = Cat("Top") -> 3 [] OTHER -> 0

\* The number of owners is a multiple of 3 and their totals are distinct.
TerciosExactos(rows) ==
    /\ Cardinality(Propietarios(rows)) % 3 = 0
    /\ \A k1, k2 \in Propietarios(rows) :
          k1 # k2 => IngresoPropietario(rows, k1) # IngresoPropietario(rows, k2)

\* C9: the owners are classified by tertiles of their per-owner total
\* Importe_MXN: the label never decreases as the total grows, and when the
\* number of owners is a multiple of 3 with distinct totals each of Bajo,
\* Medio and Top holds exactly one third of the owners.
C9_TercilesPorPropietario ==
    /\ pc = "aggregated" =>
          LET p == agrup.ingresos_propietarios
          IN  /\ DOMAIN p = Propietarios(Salida)
              /\ \A k \in DOMAIN p :
                    /\ p[k].IngresoTotal = IngresoPropietario(Salida, k)
                    /\ Nivel(p[k].Clasificacion) \in 1..3
              /\ \A k1, k2 \in DOMAIN p :
                    p[k1].IngresoTotal <= p[k2].IngresoTotal
                       => Nivel(p[k1].Clasificacion) <= Nivel(p[k2].Clasificacion)
              /\ TerciosExactos(Salida) =>
                    \A n \in 1..3 :
                       3 * Cardinality({k \in DOMAIN p : Nivel(p[k].Clasificacion) = n})
                          = Cardinality(DOMAIN p)
    /\ pc = "abort_agrupaciones" => ~TerciosExactos(Salida)

C9_Witness ==
    /\ pc = "aggregated"
    /\ Cardinality(Propietarios(Salida)) = 6
    /\ \A i \in DOMAIN Salida :
          /\ Salida[i].FolioPropietario.n = i
          /\ Salida[i].Importe_MXN.v = i * 100
          /\ agrup.ingresos_propietarios[Salida[i].FolioPropietario].Clasificacion
                = Cat(<<"Bajo", "Bajo", "Medio", "Medio", "Top", "Top">>[i])

(***************************************************************************)
(* Claim about the growth tables (SpecGrowth)                              *)
(***************************************************************************)
\* ano = 0 stands for a row without a closing date; the amount varies in
\* the rows that close in 2023 or 2024.
OpcionesGrowth ==
    {o \in [emp : {IdA, IdB}, ano : {0, 2022, 2023, 2024}, importe : {0, 1000, 1500}] :
        o.ano \in {0, 2022} => o.importe = 1000}

FilaGrowth(i, o) ==
    Fila(Num(i), o.emp, Num(i % 2),
         Num(o.importe), IF o.ano = 0 THEN NaN ELSE Fecha(15, 3, o.ano, 10, 30),
         IF i = 1 THEN ZonaN ELSE Str(<<"S">>), Num(1), Str(MXN))

MaxRowsGrowth == 3

InitGrowth ==
    \E k \in 1..MaxRowsGrowth : \E ch \in [1..k -> OpcionesGrowth] :
        ch[1].emp = IdA /\ Cargada(TablaPorFila(FilaGrowth, ch))

SpecGrowth == InitGrowth /\ [][Next]_vars

\* The total Importe_MXN of the rows of entity e that close in year a.
TotalAnual(rows, keys, e, a) ==
    SumSeq([i \in DOMAIN rows |->
              IF /\ [c \in keys |-> rows[i][c]] = e
                 /\ rows[i].FechaCierre.t = "ts"
                 /\ rows[i].FechaCierre.y = a
                THEN rows[i].Importe_MXN.v ELSE 0])

CierraEn(rows, a) ==
    \E i \in DOMAIN rows : rows[i].FechaCierre.t = "ts" /\ rows[i].FechaCierre.y = a

CrecimientoBien(rows, keys, tbl) ==
    /\ \A i \in DOMAIN rows :
          rows[i].FechaCierre.t = "ts" => [c \in keys |-> rows[i][c]] \in DOMAIN tbl
    /\ \A e \in DOMAIN tbl :
          LET t23 == TotalAnual(rows, keys, e, 2023)
              t24 == TotalAnual(rows, keys, e, 2024)
              g == tbl[e].Crecimiento
          IN  /\ tbl[e].totales[2023] = t23
              /\ tbl[e].totales[2024] = t24
              /\ t23 # 0 => /\ g.t = "pct"
                            /\ g.n * t23 = (t24 - t23) * g.d
              /\ t23 = 0 => /\ g.t \in {"inf", "nan"}
                            /\ g.t = "nan" <=> t24 = 0

\* C7: for every entity of the three growth tables, with t23 and t24 its
\* totals of Importe_MXN over the rows closing in 2023 and in 2024 (0 when
\* it has none, other years not counted), Crecimiento_% is
\* (t24 - t23) / t23 * 100 when t23 is not zero and an infinite or null
\* marker when t23 is zero, the other entities keeping their values; a zero
\* t23 never stops the computation, which stops only when no row of the
\* table closes in 2023 or none closes in 2024.
C7_CrecimientoAnual ==
    /\ pc = "done" =>
          /\ CrecimientoBien(Salida, {"IdEmpresa", "FolioEmpresa"}, crec.crecimiento_empresas)
          /\ CrecimientoBien(Salida, {"IdPropietario", "FolioPropietario"},
                             crec.crecimiento_propietarios)
          /\ CrecimientoBien(Salida, {"Zona"}, crec.crecimiento_zonas)
    /\ pc = "abort_crecimientos" => ~(CierraEn(Salida, 2023) /\ CierraEn(Salida, 2024))

C7_Witness ==
    /\ pc = "done"
    /\ \E e1, e2 \in DOMAIN crec.crecimiento_empresas :
          /\ crec.crecimiento_empresas[e1].totales[2023] = 1000
          /\ crec.crecimiento_empresas[e1].totales[2024] = 1500
          /\ crec.crecimiento_empresas[e1].Crecimiento = [t |-> "pct", n |-> 1, d |-> 2]
          /\ crec.crecimiento_empresas[e2].totales[2023] = 0
          /\ crec.crecimiento_empresas[e2].totales[2024] = 1000
          /\ crec.crecimiento_empresas[e2].Crecimiento = Inf

====
